---------------------------- MODULE Spec2Model ----------------------------
(***************************************************************************)
(* Model of the digital signage control panel (src/app.py): the session   *)
(* gate, the five per-display JSON configuration files, the upload        *)
(* handler and the generation and serving of the static display pages.    *)
(*                                                                         *)
(* Files are modelled by their text, one character per element, so that   *)
(* json.dump / json.load, truncation on open and overlapping writes are   *)
(* computed and not assumed.                                              *)
(***************************************************************************)
EXTENDS Integers, Sequences, FiniteSets, TLC

(***************************************************************************)
(* Bounds of the model.                                                    *)
(***************************************************************************)
\* browser sessions (signed cookies) that issue requests
NumSessions == 1
\* displays 1..MaxTouched are the ones requests write to; all five are read
MaxTouched == 2
\* request handling threads of the development server (concurrent model)
NumThreads == 2
\* displays 1..MaxRaced are the ones concurrent requests write to
MaxRaced == 1
\* distinct second-granularity timestamps an upload can get
MaxTime == 1
\* longest prefix a failed flush of the generated page leaves behind
MaxPartial == 1

(***************************************************************************)
(* Program constants.                                                      *)
(***************************************************************************)
\* for i in range(1, 6); screen_id < 1 or screen_id > 5
NumScreens == 5
\* json.dump(..., indent=2, ...)
IndentWidth == 2
\* app.config['MAX_CONTENT_LENGTH'], here in characters of the model
MaxContentLength == 8

Sessions == 1..NumSessions
Screens == 1..NumScreens
Threads == 1..NumThreads

(***************************************************************************)
(* Text.  A string is a sequence of one-character strings.                 *)
(***************************************************************************)
\* a lone surrogate: a Python str may hold it, UTF-8 cannot encode it
Surrogate == "\\ud800"
Digits == {"0", "1", "2", "3", "4", "5", "6", "7", "8", "9"}
Whitespace == {" ", "\n"}

K_slides == <<"s", "l", "i", "d", "e", "s">>
K_marquee_enabled == <<"m", "a", "r", "q", "u", "e", "e", "_", "e", "n", "a", "b", "l", "e", "d">>
K_marquee_text == <<"m", "a", "r", "q", "u", "e", "e", "_", "t", "e", "x", "t">>
K_screen_id == <<"s", "c", "r", "e", "e", "n", "_", "i", "d">>

RECURSIVE Flatten(_)
Flatten(chunks) ==
    IF chunks = <<>> THEN <<>> ELSE Head(chunks) \o Flatten(Tail(chunks))

Spaces(n) == [i \in 1..n |-> " "]

Tl(s, from) == SubSeq(s, from, Len(s))

(***************************************************************************)
(* JSON values, as Python holds them after request.json / json.load.       *)
(* t is the type; a the characters of a string or the digits of a number; *)
(* e the elements of a list or the values of a dict; k the keys of a dict.*)
(***************************************************************************)
JVal(t, a, e, k) == [t |-> t, a |-> a, e |-> e, k |-> k]
JNull == JVal("null", <<>>, <<>>, <<>>)
JTrue == JVal("true", <<>>, <<>>, <<>>)
JFalse == JVal("false", <<>>, <<>>, <<>>)
JNum(digits) == JVal("num", digits, <<>>, <<>>)
JStr(chars) == JVal("str", chars, <<>>, <<>>)
JList(elems) == JVal("list", <<>>, elems, <<>>)
JDict(keys, vals) == JVal("dict", <<>>, vals, keys)

IsScalar(v) == v.t \in {"null", "true", "false", "num", "str"}

DigitOf(n) == CASE n = 0 -> "0" [] n = 1 -> "1" [] n = 2 -> "2" [] n = 3 -> "3"
                [] n = 4 -> "4" [] n = 5 -> "5" [] n = 6 -> "6" [] n = 7 -> "7"
                [] n = 8 -> "8" [] n = 9 -> "9"

\* a dict as Python builds it from (key, value) pairs: a repeated key keeps
\* its first position and takes the last value
DictSet(d, key, val) ==
    IF \E i \in 1..Len(d.k) : d.k[i] = key
    THEN LET i == CHOOSE j \in 1..Len(d.k) : d.k[j] = key
         IN  JDict(d.k, [d.e EXCEPT ![i] = val])
    ELSE JDict(Append(d.k, key), Append(d.e, val))

\* dict.get(key, default)
DictGet(d, key, default) ==
    IF \E i \in 1..Len(d.k) : d.k[i] = key
    THEN d.e[CHOOSE j \in 1..Len(d.k) : d.k[j] = key]
    ELSE default

(***************************************************************************)
(* json.dump(config, f, indent=2, ensure_ascii=False): the chunks the      *)
(* encoder hands to f.write, in order.                                     *)
(***************************************************************************)
EncodeScalar(v) ==
    CASE v.t = "str" -> <<"\"">> \o v.a \o <<"\"">>
      [] v.t = "num" -> v.a
      [] v.t = "null" -> <<"n", "u", "l", "l">>
      [] v.t = "true" -> <<"t", "r", "u", "e">>
      [] v.t = "false" -> <<"f", "a", "l", "s", "e">>

NewlineIndent(level) == <<"\n">> \o Spaces(IndentWidth * level)

RECURSIVE IterEncode(_, _)
RECURSIVE IterEncodeListItems(_, _, _)
RECURSIVE IterEncodeDictItems(_, _, _)

IterEncodeListItems(v, i, level) ==
    IF i > Len(v.e) THEN <<>>
    ELSE LET buf == (IF i = 1 THEN <<"[">> ELSE <<",">>) \o NewlineIndent(level)
             item == v.e[i]
         IN  (IF IsScalar(item)
              THEN <<buf \o EncodeScalar(item)>>
              ELSE <<buf>> \o IterEncode(item, level))
             \o IterEncodeListItems(v, i + 1, level)

IterEncodeDictItems(v, i, level) ==
    IF i > Len(v.k) THEN <<>>
    ELSE LET sep == IF i = 1 THEN <<>> ELSE <<(<<",">> \o NewlineIndent(level))>>
             item == v.e[i]
         IN  sep \o <<(<<"\"">> \o v.k[i] \o <<"\"">>), <<":", " ">>>>
             \o (IF IsScalar(item) THEN <<EncodeScalar(item)>> ELSE IterEncode(item, level))
             \o IterEncodeDictItems(v, i + 1, level)

IterEncode(v, level) ==
    CASE IsScalar(v) -> <<EncodeScalar(v)>>
      [] v.t = "list" ->
            IF v.e = <<>> THEN << <<"[", "]">> >>
            ELSE IterEncodeListItems(v, 1, level + 1)
                 \o <<NewlineIndent(level), <<"]">>>>
      [] v.t = "dict" ->
            IF v.k = <<>> THEN << <<"{", "}">> >>
            ELSE << <<"{">>, NewlineIndent(level + 1)>>
                 \o IterEncodeDictItems(v, 1, level + 1)
                 \o <<NewlineIndent(level), <<"}">>>>

\* json.dumps(slides, ensure_ascii=False): one line, separators ', ' and ': '
RECURSIVE Dumps(_)
RECURSIVE DumpsItems(_, _)
DumpsItems(v, i) ==
    IF i > Len(v.e) THEN <<>>
    ELSE (IF i = 1 THEN <<>> ELSE <<",", " ">>)
         \o (IF v.t = "dict" THEN <<"\"">> \o v.k[i] \o <<"\"", ":", " ">> ELSE <<>>)
         \o Dumps(v.e[i])
         \o DumpsItems(v, i + 1)
Dumps(v) ==
    CASE IsScalar(v) -> EncodeScalar(v)
      [] v.t = "list" -> <<"[">> \o DumpsItems(v, 1) \o <<"]">>
      [] v.t = "dict" -> <<"{">> \o DumpsItems(v, 1) \o <<"}">>

(***************************************************************************)
(* json.load: the decoder of the standard library on the characters the   *)
(* files of this model can hold.  A result is [ok, v, pos]: whether a     *)
(* value was read, the value, and the index after it.                     *)
(***************************************************************************)
PFail == [ok |-> FALSE, v |-> JNull, pos |-> 0]
POk(v, pos) == [ok |-> TRUE, v |-> v, pos |-> pos]

RECURSIVE SkipWs(_, _)
SkipWs(s, i) ==
    IF i <= Len(s) /\ s[i] \in Whitespace THEN SkipWs(s, i + 1) ELSE i

At(s, i) == IF i >= 1 /\ i <= Len(s) THEN s[i] ELSE "<eof>"

StartsWith(s, i, word) ==
    /\ i + Len(word) - 1 <= Len(s)
    /\ SubSeq(s, i, i + Len(word) - 1) = word

\* py_scanstring in strict mode: up to the closing quote; a raw control
\* character (here the newline) or the end of the text is an error
RECURSIVE ScanString(_, _, _)
ScanString(s, i, acc) ==
    CASE i > Len(s) -> PFail
      [] i <= Len(s) /\ s[i] = "\"" -> POk(JStr(acc), i + 1)
      [] i <= Len(s) /\ s[i] = "\n" -> PFail
      [] OTHER -> ScanString(s, i + 1, Append(acc, s[i]))

\* NUMBER_RE restricted to digits: 0, or a nonzero digit and the digits after it
RECURSIVE DigitRun(_, _)
DigitRun(s, i) ==
    IF i <= Len(s) /\ s[i] \in Digits THEN DigitRun(s, i + 1) ELSE i
ScanNumber(s, i) ==
    IF s[i] = "0" THEN POk(JNum(<<"0">>), i + 1)
    ELSE LET j == DigitRun(s, i) IN POk(JNum(SubSeq(s, i, j - 1)), j)

RECURSIVE ScanOnce(_, _)
RECURSIVE ScanArray(_, _, _)
RECURSIVE ScanObject(_, _, _)

\* JSONArray after '[' and the first value's position: values separated by ','
ScanArray(s, i, acc) ==
    LET r == ScanOnce(s, i)
    IN  IF ~r.ok THEN PFail
        ELSE LET j == SkipWs(s, r.pos)
                 elems == Append(acc, r.v)
             IN  CASE At(s, j) = "]" -> POk(JList(elems), j + 1)
                   [] At(s, j) = "," -> ScanArray(s, SkipWs(s, j + 1), elems)
                   [] OTHER -> PFail

\* JSONObject at the opening quote of a key: "key" : value, separated by ','
ScanObject(s, i, acc) ==
    IF At(s, i) # "\"" THEN PFail
    ELSE LET key == ScanString(s, i + 1, <<>>)
         IN  IF ~key.ok THEN PFail
             ELSE LET c == SkipWs(s, key.pos)
                  IN  IF At(s, c) # ":" THEN PFail
                      ELSE LET r == ScanOnce(s, SkipWs(s, c + 1))
                           IN  IF ~r.ok THEN PFail
                               ELSE LET j == SkipWs(s, r.pos)
                                        d == DictSet(acc, key.v.a, r.v)
                                    IN  CASE At(s, j) = "}" -> POk(d, j + 1)
                                          [] At(s, j) = "," ->
                                                ScanObject(s, SkipWs(s, j + 1), d)
                                          [] OTHER -> PFail

ScanOnce(s, i) ==
    LET c == At(s, i)
    IN  CASE c = "\"" -> ScanString(s, i + 1, <<>>)
          [] c = "{" ->
                LET j == SkipWs(s, i + 1)
                IN  IF At(s, j) = "}" THEN POk(JDict(<<>>, <<>>), j + 1)
                    ELSE ScanObject(s, j, JDict(<<>>, <<>>))
          [] c = "[" ->
                LET j == SkipWs(s, i + 1)
                IN  IF At(s, j) = "]" THEN POk(JList(<<>>), j + 1)
                    ELSE ScanArray(s, j, <<>>)
          [] c = "n" /\ StartsWith(s, i, <<"n", "u", "l", "l">>) -> POk(JNull, i + 4)
          [] c = "t" /\ StartsWith(s, i, <<"t", "r", "u", "e">>) -> POk(JTrue, i + 4)
          [] c = "f" /\ StartsWith(s, i, <<"f", "a", "l", "s", "e">>) -> POk(JFalse, i + 5)
          [] c \in Digits -> ScanNumber(s, i)
          [] OTHER -> PFail

\* JSONDecoder.decode: one value, whitespace around it, nothing after it
\* ("Extra data" otherwise)
JsonLoads(s) ==
    LET r == ScanOnce(s, SkipWs(s, 1))
    IN  IF r.ok /\ SkipWs(s, r.pos) = Len(s) + 1 THEN POk(r.v, r.pos) ELSE PFail

(***************************************************************************)
(* Files.  A path holds no file, or a file with its text.                  *)
(***************************************************************************)
Absent == [exists |-> FALSE, text |-> <<>>]
File(text) == [exists |-> TRUE, text |-> text]

\* open(path, 'w'): the file exists and is empty from this point on
OpenW(f) == File(<<>>)

\* the write of the buffered text when the file is closed: it lands at the
\* handle's own offset, 0, and leaves what lies beyond it
FlushAt0(f, data) == File(data \o Tl(f.text, Len(data) + 1))

\* what TextIOWrapper(encoding='utf-8') accepts of a chunk
Encodable(chunk) == \A i \in 1..Len(chunk) : chunk[i] # Surrogate

\* the chunks written before the first one that cannot be encoded
RECURSIVE EncodablePrefix(_)
EncodablePrefix(chunks) ==
    IF chunks = <<>> \/ ~Encodable(Head(chunks)) THEN <<>>
    ELSE <<Head(chunks)>> \o EncodablePrefix(Tail(chunks))

(***************************************************************************)
(* Inputs of the model.                                                    *)
(***************************************************************************)
\* ADMIN_PASSWORD = os.getenv('ADMIN_PASSWD'), with ADMIN_PASSWD set in the
\* environment
ADMIN_PASSWORD == "secret"
\* request.form.get('password'): a value, or None when the field is absent
NoPassword == "<none>"
Passwords == {ADMIN_PASSWORD, "guess", NoPassword}

\* ids a URL can carry: below, inside and above 1..5
IdInputs == (-1..MaxTouched) \cup {NumScreens + 1}

\* request.json: a record with slides, a record without the slides key, a
\* value that is no object, and a record holding a lone surrogate
cA == JDict(<<K_slides>>, <<JList(<<JStr(<<"a">>)>>)>>)
cM == JDict(<<K_marquee_text>>, <<JStr(<<"h", "i">>)>>)
cList == JList(<<>>)
cBad == JDict(<<K_slides>>, <<JList(<<JStr(<<Surrogate>>)>>)>>)
Configs == {cA, cM, cList, cBad}
EncodableConfigs == {c \in Configs : \A i \in 1..Len(IterEncode(c, 0)) : Encodable(IterEncode(c, 0)[i])}

\* app.config['ALLOWED_EXTENSIONS'], app.config['ALLOWED_VIDEO_EXTENSIONS']
ALLOWED_EXTENSIONS == {<<"j", "p", "g">>, <<"p", "n", "g">>}
ALLOWED_VIDEO_EXTENSIONS == {<<"m", "p", "4">>}

Filenames == {<<>>, <<"a">>, <<"p", ".", "J", "P", "G">>, <<"m", ".", "e", "x", "e">>,
              <<"v", ".", "m", "p", "4">>}
\* an upload request: whether the multipart body has the field 'file', the
\* filename of that part, and the Content-Length of the request
UploadRequests ==
    [hasFile : {TRUE}, filename : Filenames, length : {1, MaxContentLength + 1}]
    \cup [hasFile : {FALSE}, filename : {<<>>}, length : {1, MaxContentLength + 1}]

\* the ids for which a request can name data/config/pantalla{id}.json or
\* data/screens/pantalla{id}/index.html
Paths == 0..(NumScreens + 1)

VARIABLES
    logged_in,      \* session['logged_in'] of each session
    configFile,     \* data/config/pantalla{id}.json
    screenFile,     \* data/screens/pantalla{id}/index.html
    uploads,        \* names of the files under UPLOAD_FOLDER
    thr,            \* what each request thread is in the middle of
    lastSaved,      \* history: the value of the last save of each id that succeeded
    generated,      \* history: whether a generation of each id has succeeded
    genDoc          \* history: the page the last successful generation of each
                    \* id wrote, until a generation opens the output again

vars == <<logged_in, configFile, screenFile, uploads, thr, lastSaved, generated, genDoc>>

(***************************************************************************)
(* Helpers of the application.                                             *)
(***************************************************************************)
\* a gate that lets every session through
login_required_open(s, denied, response) == response

\* login_required: the handler's response, or the redirect to the login
\* route when the session flag is not set
login_required(s, denied, response) ==
    IF ~logged_in[s] THEN [denied EXCEPT !.status = 302, !.loc = "/login"] ELSE response

\* <int:screen_id> in a route: the converter matches digits only, so a
\* negative id matches no route
IntConverter(id) == id >= 0

\* screen_id < 1 or screen_id > 5
InvalidId(id) == id < 1 \/ id > NumScreens

\* str.lower() on the letters the file names of the model use
Lower(c) == CASE c = "J" -> "j" [] c = "P" -> "p" [] c = "G" -> "g" [] OTHER -> c
LowerAll(cs) == [i \in 1..Len(cs) |-> Lower(cs[i])]

HasDot(filename) == \E i \in 1..Len(filename) : filename[i] = "."
\* filename.rsplit('.', 1)[1]
AfterLastDot(filename) ==
    LET i == CHOOSE j \in 1..Len(filename) :
                 /\ filename[j] = "."
                 /\ \A m \in (j + 1)..Len(filename) : filename[m] # "."
    IN  Tl(filename, i + 1)

\* the image check without lower()
allowed_file_cased(filename) ==
    HasDot(filename) /\ AfterLastDot(filename) \in ALLOWED_EXTENSIONS

allowed_file(filename) ==
    HasDot(filename) /\ LowerAll(AfterLastDot(filename)) \in ALLOWED_EXTENSIONS

allowed_video(filename) ==
    HasDot(filename) /\ LowerAll(AfterLastDot(filename)) \in ALLOWED_VIDEO_EXTENSIONS

\* werkzeug's secure_filename on the names of the model (ASCII letters,
\* digits and dots): the name itself, without leading or trailing dots
RECURSIVE secure_filename(_)
secure_filename(cs) ==
    CASE cs = <<>> -> cs
      [] cs # <<>> /\ Head(cs) = "." -> secure_filename(Tail(cs))
      [] cs # <<>> /\ Head(cs) # "." /\ cs[Len(cs)] = "." ->
            secure_filename(SubSeq(cs, 1, Len(cs) - 1))
      [] OTHER -> cs

\* f"{timestamp}_{filename}"
StoredName(ts, filename) == <<"T", DigitOf(ts), "_">> \o secure_filename(filename)

DefaultConfig(id) ==
    JDict(<<K_screen_id, K_slides>>, <<JNum(<<DigitOf(id)>>), JList(<<>>)>>)

\* load_screen_config: ok is FALSE when json.load raises
load_screen_config(files, id) ==
    IF files[id].exists THEN JsonLoads(files[id].text) ELSE POk(DefaultConfig(id), 0)

\* json.dump into the open file: what reaches the file buffer, and whether
\* a chunk made f.write raise UnicodeEncodeError
DumpBuffer(config) ==
    LET chunks == IterEncode(config, 0)
        done == EncodablePrefix(chunks)
    IN  [text |-> Flatten(done), raised |-> Len(done) < Len(chunks)]

\* save_screen_config: open (truncate), dump into the buffer, close (flush)
save_screen_config(files, id, config) ==
    [files |-> [files EXCEPT ![id] = FlushAt0(OpenW(@), DumpBuffer(config).text)],
     raised |-> DumpBuffer(config).raised]

\* config.get(key, default): only a dict has it (AttributeError otherwise)
HasGet(config) == config.t = "dict"
\* len(x): TypeError for a number, a boolean and None
HasLen(x) == x.t \in {"list", "dict", "str"}
PyLen(x) == CASE x.t = "list" -> Len(x.e) [] x.t = "dict" -> Len(x.k) [] x.t = "str" -> Len(x.a)

\* render_template('screen_base.html', ...): the page embeds the display id,
\* the slide list as inline JSON and the two marquee settings
Render(id, slides_json, marquee_enabled, marquee_text) ==
    <<"<html>", DigitOf(id)>> \o slides_json \o <<"|">> \o Dumps(marquee_enabled)
    \o <<"|">> \o Dumps(marquee_text) \o <<"</html>">>

\* generate_screen_html from the loaded configuration c to the rendered
\* page: ok is FALSE when loading it or reading its keys raised
RenderConfig(id, c) ==
    IF ~c.ok \/ ~HasGet(c.v) THEN [ok |-> FALSE, html |-> <<>>]
    ELSE [ok |-> TRUE,
          html |-> Render(id, Dumps(DictGet(c.v, K_slides, JList(<<>>))),
                          DictGet(c.v, K_marquee_enabled, JFalse),
                          DictGet(c.v, K_marquee_text, JStr(<<>>)))]

\* generate_screen_html up to the rendered page
HtmlContent(files, id) == RenderConfig(id, load_screen_config(files, id))

\* the directories data/screens/pantalla1 .. pantalla5 made at start-up
DirExists(id) == id \in Screens

\* the faults of the file system while the page is written: none, open()
\* raises, or the write raises after n characters reached the file
OpenFaults == {[at |-> "none", n |-> 0], [at |-> "open", n |-> 0]}
WriteFaults == {[at |-> "none", n |-> 0]} \cup {[at |-> "write", n |-> n] : n \in 0..MaxPartial}
Faults == OpenFaults \cup WriteFaults

\* open(output_path, 'w') raises: the directory is missing, or a fault
OpenRaises(id, fault) == ~DirExists(id) \/ fault.at = "open"

\* f.write(html_content) and the close of the file: what the file holds
\* afterwards and whether an exception left the with block
WriteAndClose(file, html, fault) ==
    CASE fault.at = "write" /\ fault.n < Len(html) ->
            [file |-> FlushAt0(file, SubSeq(html, 1, fault.n)), raised |-> TRUE]
      [] ~(fault.at = "write" /\ fault.n < Len(html)) /\ ~Encodable(html) ->
            [file |-> file, raised |-> TRUE]
      [] OTHER -> [file |-> FlushAt0(file, html), raised |-> FALSE]

\* with open(output_path, 'w', encoding='utf-8') as f: f.write(html_content)
WritePage(file, id, html, fault) ==
    IF OpenRaises(id, fault) THEN [file |-> file, raised |-> TRUE]
    ELSE WriteAndClose(OpenW(file), html, fault)

(***************************************************************************)
(* The routes.  Each is the response and the state the handler leaves, as  *)
(* a function of the request and of the state it finds.                    *)
(***************************************************************************)
\* a login that accepts whatever password is posted
login_any(s, method, password) ==
    IF method = "POST"
    THEN [status |-> 302, loc |-> "/", logged_in |-> [logged_in EXCEPT ![s] = TRUE]]
    ELSE [status |-> 200, loc |-> "", logged_in |-> logged_in]

\* login(): GET shows the form, POST compares the password
login(s, method, password) ==
    IF method = "POST"
    THEN IF password = ADMIN_PASSWORD
         THEN [status |-> 302, loc |-> "/", logged_in |-> [logged_in EXCEPT ![s] = TRUE]]
         ELSE [status |-> 401, loc |-> "", logged_in |-> logged_in]
    ELSE [status |-> 200, loc |-> "", logged_in |-> logged_in]

\* logout()
logout(s) ==
    [status |-> 302, loc |-> "/login", logged_in |-> [logged_in EXCEPT ![s] = FALSE]]

\* index()
index(s) ==
    login_required(s, [status |-> 200, loc |-> ""], [status |-> 200, loc |-> ""])

\* the counts of one entry of get_screens, from config.get('slides', [])
SlideCounts(i, slides) ==
    IF ~HasLen(slides)
    THEN [ok |-> FALSE, id |-> i, slides_count |-> 0, has_content |-> FALSE]
    ELSE [ok |-> TRUE, id |-> i, slides_count |-> PyLen(slides),
          has_content |-> PyLen(slides) > 0]

\* one entry of get_screens from the loaded configuration c: ok is FALSE
\* when building it raises
EntryOf(i, c) ==
    IF ~c.ok \/ ~HasGet(c.v)
    THEN [ok |-> FALSE, id |-> i, slides_count |-> 0, has_content |-> FALSE]
    ELSE SlideCounts(i, DictGet(c.v, K_slides, JList(<<>>)))

ScreenEntry(files, i) == EntryOf(i, load_screen_config(files, i))

\* get_screens()
get_screens(s) ==
    LET entries == [i \in 1..NumScreens |-> ScreenEntry(configFile, i)]
        none == [status |-> 500, loc |-> "", body |-> <<>>]
    IN  login_required(s, none,
            IF \A i \in 1..NumScreens : entries[i].ok
            THEN [status |-> 200, loc |-> "", body |-> entries]
            ELSE none)

\* get_screen(screen_id)
get_screen(s, id) ==
    LET none == [status |-> 404, loc |-> "", body |-> JNull]
    IN  IF ~IntConverter(id) THEN none
        ELSE login_required(s, none,
                 IF InvalidId(id) THEN [none EXCEPT !.status = 400]
                 ELSE LET c == load_screen_config(configFile, id)
                      IN  IF c.ok THEN [status |-> 200, loc |-> "", body |-> c.v]
                          ELSE [none EXCEPT !.status = 500])

\* save_screen(screen_id) with request.json = data
save_screen(s, id, data) ==
    LET none == [status |-> 404, loc |-> "", files |-> configFile, saved |-> FALSE]
    IN  IF ~IntConverter(id) THEN none
        ELSE login_required(s, none,
                 IF InvalidId(id) THEN [none EXCEPT !.status = 400]
                 ELSE LET w == save_screen_config(configFile, id, data)
                      IN  IF w.raised
                          THEN [none EXCEPT !.status = 500, !.files = w.files]
                          ELSE [status |-> 200, loc |-> "", files |-> w.files,
                                saved |-> TRUE])

\* upload_file(): request.files is parsed on its first use, which answers
\* 413 when the request is longer than MAX_CONTENT_LENGTH
upload_file(s, req, ts) ==
    LET none == [status |-> 400, loc |-> "", uploads |-> uploads,
                 filename |-> <<>>, type |-> ""]
        stored == StoredName(ts, req.filename)
        ok(type) == [status |-> 200, loc |-> "", uploads |-> uploads \cup {stored},
                     filename |-> stored, type |-> type]
    IN  login_required(s, none,
            IF req.length > MaxContentLength THEN [none EXCEPT !.status = 413]
            ELSE IF ~req.hasFile THEN none
            ELSE IF req.filename = <<>> THEN none
            ELSE IF allowed_file(req.filename) THEN ok("image")
            ELSE IF allowed_video(req.filename) THEN ok("video")
            ELSE none)

\* the answer of generate_screen when nothing was generated
NotGenerated(status) ==
    [status |-> status, loc |-> "", files |-> screenFile, done |-> FALSE,
     opened |-> FALSE, html |-> <<>>]

\* the answer of generate_screen once the page html was rendered and the
\* write w of it has ended
GeneratedAnswer(id, fault, html, w) ==
    [status |-> IF w.raised THEN 500 ELSE 200,
     loc |-> "",
     files |-> [screenFile EXCEPT ![id] = w.file],
     done |-> ~w.raised,
     opened |-> ~OpenRaises(id, fault),
     html |-> html]

\* try: generate_screen_html(screen_id), with h the rendered page; every
\* exception is answered with 500
TryGenerate(id, fault, h) ==
    IF ~h.ok THEN NotGenerated(500)
    ELSE GeneratedAnswer(id, fault, h.html,
                         WritePage(screenFile[id], id, h.html, fault))

\* generate_screen(screen_id)
generate_screen(s, id, fault) ==
    IF ~IntConverter(id) THEN NotGenerated(404)
    ELSE login_required(s, NotGenerated(404),
             IF InvalidId(id) THEN NotGenerated(400)
             ELSE TryGenerate(id, fault, HtmlContent(configFile, id)))

\* show_screen(screen_id): no login_required
show_screen(files, id) ==
    IF ~IntConverter(id) \/ InvalidId(id) THEN [status |-> 404, body |-> <<>>]
    ELSE IF ~files[id].exists THEN [status |-> 404, body |-> <<>>]
    ELSE [status |-> 200, body |-> files[id].text]

(***************************************************************************)
(* The state after start-up, and the requests handled one at a time.       *)
(***************************************************************************)
NoSave == JVal("nosave", <<>>, <<>>, <<>>)
NoDoc == [ok |-> FALSE, text |-> <<>>]
Doc(text) == [ok |-> TRUE, text |-> text]
Idle == [pc |-> "idle", id |-> 0, buf |-> <<>>, cfg |-> JNull, raised |-> FALSE]

Init ==
    /\ logged_in = [s \in Sessions |-> FALSE]
    /\ configFile = [i \in Paths |-> Absent]
    /\ screenFile = [i \in Paths |-> Absent]
    /\ uploads = {}
    /\ thr = [t \in Threads |-> Idle]
    /\ lastSaved = [i \in Paths |-> NoSave]
    /\ generated = [i \in Paths |-> FALSE]
    /\ genDoc = [i \in Paths |-> NoDoc]

Login(s, method, password) ==
    /\ logged_in' = login(s, method, password).logged_in
    /\ UNCHANGED <<configFile, screenFile, uploads, thr, lastSaved, generated, genDoc>>

Logout(s) ==
    /\ logged_in' = logout(s).logged_in
    /\ UNCHANGED <<configFile, screenFile, uploads, thr, lastSaved, generated, genDoc>>

Index(s) ==
    /\ index(s).status \in {200, 302}
    /\ UNCHANGED vars

GetScreens(s) ==
    /\ get_screens(s).status \in {200, 302, 500}
    /\ UNCHANGED vars

GetScreen(s, id) ==
    /\ get_screen(s, id).status \in {200, 302, 400, 404, 500}
    /\ UNCHANGED vars

SaveScreen(s, id, data) ==
    LET r == save_screen(s, id, data)
    IN  /\ configFile' = r.files
        /\ lastSaved' = IF r.saved THEN [lastSaved EXCEPT ![id] = data] ELSE lastSaved
        /\ UNCHANGED <<logged_in, screenFile, uploads, thr, generated, genDoc>>

Upload(s, req, ts) ==
    /\ uploads' = upload_file(s, req, ts).uploads
    /\ UNCHANGED <<logged_in, configFile, screenFile, thr, lastSaved, generated, genDoc>>

\* the state after generate_screen has answered r
Generated(id, r) ==
    /\ screenFile' = r.files
    /\ generated' = IF r.done THEN [generated EXCEPT ![id] = TRUE] ELSE generated
    /\ genDoc' = CASE r.done -> [genDoc EXCEPT ![id] = Doc(r.html)]
                   [] ~r.done /\ r.opened -> [genDoc EXCEPT ![id] = NoDoc]
                   [] OTHER -> genDoc
    /\ UNCHANGED <<logged_in, configFile, uploads, thr, lastSaved>>

Generate(s, id, fault) == Generated(id, generate_screen(s, id, fault))

ShowScreen(id) ==
    /\ show_screen(screenFile, id).status \in {200, 404}
    /\ UNCHANGED vars

Next ==
    \/ \E s \in Sessions, m \in {"GET", "POST"}, p \in Passwords : Login(s, m, p)
    \/ \E s \in Sessions : Logout(s)
    \/ \E s \in Sessions : Index(s)
    \/ \E s \in Sessions : GetScreens(s)
    \/ \E s \in Sessions, id \in IdInputs : GetScreen(s, id)
    \/ \E s \in Sessions, id \in IdInputs, data \in Configs : SaveScreen(s, id, data)
    \/ \E s \in Sessions, req \in UploadRequests, ts \in 1..MaxTime : Upload(s, req, ts)
    \/ \E s \in Sessions, id \in IdInputs, fault \in Faults : Generate(s, id, fault)
    \/ \E id \in IdInputs : ShowScreen(id)

Spec == Init /\ [][Next]_vars

(***************************************************************************)
(* The same requests handled by threads.  The development server handles  *)
(* each request in a thread of its own and the application takes no lock: *)
(* a save is open (truncate), then close (one write of the buffer at      *)
(* offset 0); a generation is load and render, open, then close.          *)
(***************************************************************************)
Admitted(s, id) == IntConverter(id) /\ logged_in[s] /\ ~InvalidId(id)

\* save_screen up to open(config_path, 'w') and json.dump into the buffer
SaveOpen(t, s, id, data) ==
    /\ thr[t].pc = "idle"
    /\ Admitted(s, id)
    /\ configFile' = [configFile EXCEPT ![id] = OpenW(@)]
    /\ thr' = [thr EXCEPT ![t] = [pc |-> "save_opened", id |-> id,
                                  buf |-> DumpBuffer(data).text, cfg |-> data,
                                  raised |-> DumpBuffer(data).raised]]
    /\ UNCHANGED <<logged_in, screenFile, uploads, lastSaved, generated, genDoc>>

\* the end of the with block of save_screen_config: the buffer is written
SaveClose(t) ==
    /\ thr[t].pc = "save_opened"
    /\ configFile' = [configFile EXCEPT ![thr[t].id] = FlushAt0(@, thr[t].buf)]
    /\ lastSaved' = IF thr[t].raised THEN lastSaved
                    ELSE [lastSaved EXCEPT ![thr[t].id] = thr[t].cfg]
    /\ thr' = [thr EXCEPT ![t] = Idle]
    /\ UNCHANGED <<logged_in, screenFile, uploads, generated, genDoc>>

\* generate_screen up to render_template: the page is in memory
GenRender(t, s, id) ==
    /\ thr[t].pc = "idle"
    /\ Admitted(s, id)
    /\ HtmlContent(configFile, id).ok
    /\ thr' = [thr EXCEPT ![t] = [pc |-> "gen_rendered", id |-> id,
                                  buf |-> HtmlContent(configFile, id).html,
                                  cfg |-> JNull, raised |-> FALSE]]
    /\ UNCHANGED <<logged_in, configFile, screenFile, uploads, lastSaved, generated, genDoc>>

\* open(output_path, 'w')
GenOpen(t, fault) ==
    /\ thr[t].pc = "gen_rendered"
    /\ IF OpenRaises(thr[t].id, fault)
       THEN /\ thr' = [thr EXCEPT ![t] = Idle]
            /\ UNCHANGED <<screenFile, genDoc>>
       ELSE /\ screenFile' = [screenFile EXCEPT ![thr[t].id] = OpenW(@)]
            /\ genDoc' = [genDoc EXCEPT ![thr[t].id] = NoDoc]
            /\ thr' = [thr EXCEPT ![t].pc = "gen_opened"]
    /\ UNCHANGED <<logged_in, configFile, uploads, lastSaved, generated>>

\* f.write(html_content) and the end of the with block
GenClose(t, fault) ==
    LET id == thr[t].id
        w == WriteAndClose(screenFile[id], thr[t].buf, fault)
    IN  /\ thr[t].pc = "gen_opened"
        /\ screenFile' = [screenFile EXCEPT ![id] = w.file]
        /\ generated' = IF w.raised THEN generated ELSE [generated EXCEPT ![id] = TRUE]
        /\ genDoc' = IF w.raised THEN genDoc ELSE [genDoc EXCEPT ![id] = Doc(thr[t].buf)]
        /\ thr' = [thr EXCEPT ![t] = Idle]
        /\ UNCHANGED <<logged_in, configFile, uploads, lastSaved>>

NextConc ==
    \/ \E s \in Sessions, m \in {"GET", "POST"}, p \in Passwords : Login(s, m, p)
    \/ \E s \in Sessions : Logout(s)
    \/ \E s \in Sessions, id \in IdInputs : GetScreen(s, id)
    \/ \E id \in IdInputs : ShowScreen(id)
    \/ \E t \in Threads, s \in Sessions, id \in 1..MaxRaced, data \in EncodableConfigs :
           SaveOpen(t, s, id, data)
    \/ \E t \in Threads : SaveClose(t)
    \/ \E t \in Threads, s \in Sessions, id \in 1..MaxRaced : GenRender(t, s, id)
    \/ \E t \in Threads, fault \in OpenFaults : GenOpen(t, fault)
    \/ \E t \in Threads, fault \in WriteFaults : GenClose(t, fault)

SpecConc == Init /\ [][NextConc]_vars


(***************************************************************************)
(* Properties.                                                             *)
(***************************************************************************)
Redirected(r) == r.status = 302 /\ r.loc = "/login"

NoFault == [at |-> "none", n |-> 0]
photo_JPG == <<"p", ".", "J", "P", "G">>
movie_exe == <<"m", ".", "e", "x", "e">>
clip_mp4 == <<"v", ".", "m", "p", "4">>
Small(filename) == [hasFile |-> TRUE, filename |-> filename, length |-> 1]

\* the text json.dump writes for a value that it can write whole
Saved(config) == Flatten(IterEncode(config, 0))

\* C1: while the session flag is unset, every administrative route answers
\* with the redirect to /login, and the handler body does not run: no
\* configuration file, no generated page and no uploaded file changes.
C1_LoginRequired ==
    \A s \in Sessions : ~logged_in[s] =>
        /\ Redirected(index(s))
        /\ Redirected(get_screens(s))
        /\ \A id \in IdInputs : IntConverter(id) =>
              /\ Redirected(get_screen(s, id))
              /\ \A data \in Configs :
                    LET r == save_screen(s, id, data)
                    IN  Redirected(r) /\ r.files = configFile /\ ~r.saved
              /\ \A fault \in Faults :
                    LET r == generate_screen(s, id, fault)
                    IN  Redirected(r) /\ r.files = screenFile /\ ~r.done /\ ~r.opened
        /\ \A req \in UploadRequests, ts \in 1..MaxTime :
              LET r == upload_file(s, req, ts)
              IN  Redirected(r) /\ r.uploads = uploads

\* a logged-out session in a state that holds a saved configuration, a
\* generated page and an upload, all of which its requests leave alone
C1_Witness ==
    \E s \in Sessions :
        /\ ~logged_in[s]
        /\ lastSaved[1] # NoSave /\ generated[1] /\ uploads # {}
        /\ Redirected(save_screen(s, 1, cM))
        /\ save_screen(s, 1, cM).files = configFile
        /\ Redirected(generate_screen(s, 1, NoFault))
        /\ Redirected(upload_file(s, Small(photo_JPG), 1))

C2_State ==
    \A s \in Sessions :
        /\ \A p \in Passwords \ {ADMIN_PASSWORD} :
              /\ login(s, "POST", p).status = 401
              /\ login(s, "POST", p).logged_in = logged_in
              /\ ~logged_in[s] => Redirected(get_screens(s))
        /\ \A m \in {"GET", "POST"}, p \in Passwords :
              (~logged_in[s] /\ login(s, m, p).logged_in[s])
                  => (m = "POST" /\ p = ADMIN_PASSWORD)

C2_Step ==
    \A s \in Sessions :
        (~logged_in[s] /\ logged_in'[s])
            => logged_in' = login(s, "POST", ADMIN_PASSWORD).logged_in

\* C2: POST /login with a password other than the configured one answers
\* 401 and leaves the session flag as it was, so GET /api/screens of a
\* logged-out session still redirects; and every step that sets the flag
\* is a POST /login with the configured password.
C2_WrongPassword == []C2_State /\ [][C2_Step]_vars

\* a session that was logged in, worked and logged out: a wrong password
\* does not let it back in
C2_Witness ==
    \E s \in Sessions :
        /\ ~logged_in[s] /\ lastSaved[1] # NoSave
        /\ login(s, "POST", "guess").status = 401
        /\ ~login(s, "POST", "guess").logged_in[s]
        /\ login(s, "POST", NoPassword).status = 401
        /\ Redirected(get_screens(s))

\* C3: load(id) is the value of the most recent save(id, cfg), or the default
\* record when id was never saved, whatever was saved to other ids.
C3_RoundTrip ==
    \A i \in Screens :
        LET c == load_screen_config(configFile, i)
        IN  /\ c.ok
            /\ c.v = IF lastSaved[i] = NoSave THEN DefaultConfig(i) ELSE lastSaved[i]

\* C4: for a logged-in session and every id outside 1..5, GET and POST
\* /api/screen/{id} and POST /api/generate/{id} answer 400 and change no
\* configuration file and no generated page.
C4_InvalidId ==
    \A s \in Sessions : logged_in[s] =>
        \A id \in IdInputs : id \notin Screens =>
            /\ get_screen(s, id).status = 400
            /\ \A data \in Configs :
                  LET r == save_screen(s, id, data)
                  IN  r.status = 400 /\ r.files = configFile
            /\ \A fault \in Faults :
                  LET r == generate_screen(s, id, fault)
                  IN  r.status = 400 /\ r.files = screenFile

\* C5: once a generation of id has succeeded, GET /pantalla{id} answers 200
\* with the page that generation rendered, until a generation of the same
\* id opens the output again.
C5_ServedAsGenerated ==
    \A i \in Screens : genDoc[i].ok =>
        show_screen(screenFile, i) = [status |-> 200, body |-> genDoc[i].text]

\* C6: GET /pantalla{id} answers 404 when id is outside 1..5 or no
\* generation of id has succeeded yet (the route reads no session).
C6_NotGenerated ==
    \A id \in IdInputs : (id \notin Screens \/ ~generated[id]) =>
        show_screen(screenFile, id).status = 404

Rejected(req) ==
    \/ ~req.hasFile
    \/ req.filename = <<>>
    \/ ~HasDot(req.filename)
    \/ LowerAll(AfterLastDot(req.filename))
           \notin (ALLOWED_EXTENSIONS \cup ALLOWED_VIDEO_EXTENSIONS)

EveryConfigLoads == \A i \in Screens : load_screen_config(configFile, i).ok

\* C8: GET /api/screens of a logged-in session returns five entries with the
\* ids 1..5 in order, whatever values the saves have stored (here whenever
\* every stored file holds a JSON value).
C8_FiveEntries ==
    \A s \in Sessions :
        (logged_in[s] /\ EveryConfigLoads) =>
            LET r == get_screens(s)
            IN  /\ r.status = 200
                /\ Len(r.body) = NumScreens
                /\ \A i \in 1..NumScreens : r.body[i].id = i

\* C9: generation is all-or-nothing: at every moment the output path of a
\* display holds no file, or the whole page of a generation that succeeded,
\* never an empty or partial one.
C9_AllOrNothing ==
    \A i \in Screens : screenFile[i].exists =>
        /\ genDoc[i].ok
        /\ screenFile[i].text = genDoc[i].text

SaveInProgress(i) == \E t \in Threads : thr[t].pc = "save_opened" /\ thr[t].id = i

\* C10: once every concurrent save of an id has completed, its file holds
\* exactly the record of the save that completed last, and loading it gives
\* that record.
C10_LastWriterWins ==
    \A i \in Screens : (lastSaved[i] # NoSave /\ ~SaveInProgress(i)) =>
        /\ configFile[i] = File(Saved(lastSaved[i]))
        /\ load_screen_config(configFile, i).ok
        /\ load_screen_config(configFile, i).v = lastSaved[i]
=============================================================================
